---- MODULE Spec2Model ----
(***************************************************************************)
(* Model of llmtuner/model/loader.py : load_model_and_tokenizer.            *)
(*                                                                           *)
(* One behaviour is one call of load_model_and_tokenizer.  The arguments    *)
(* (is_trainable, add_valuehead, model_args.use_unsloth,                    *)
(* model_args.adapter_name_or_path, config.model_type) are drawn in Init;   *)
(* what the collaborators answer (hasattr(model, "add_model_tags"),         *)
(* quantization_method of the built model, the fine-tuning type seen by     *)
(* init_adapter, whether a value-head checkpoint exists) is drawn when the  *)
(* statement that asks for it runs.                                         *)
(***************************************************************************)
EXTENDS Integers, Sequences, FiniteSets, TLC

\* ------------------------------------------------------------------ bounds
\* longest adapter_name_or_path list that is enumerated
MaxAdapters == 2
\* number of parameters of the built model (count_parameters' all_param)
NumParams == 2

\* ------------------------------------------------------------ input values
AdapterPaths == {"adapter_a", "adapter_b"}
ModelName == "base_model"
\* config.model_type: the two types the unsloth branch names, another type,
\* and the getattr default (no model_type attribute)
ModelTypes == {"llama", "mistral", "qwen", "None"}
FinetuningTypes == {"none", "freeze", "lora", "full"}
Params == 1..NumParams

RECURSIVE SeqsUpTo(_, _)
SeqsUpTo(S, n) ==
  IF n = 0 THEN {<<>>}
  ELSE LET shorter == SeqsUpTo(S, n - 1)
       IN  shorter \cup {Append(s, x) : s \in {t \in shorter : Len(t) = n - 1}, x \in S}

\* model_args.adapter_name_or_path is None (present = FALSE) or a list
NoAdapter == [present |-> FALSE, paths |-> <<>>]
AdapterValues ==
  {NoAdapter} \cup {[present |-> TRUE, paths |-> p] : p \in SeqsUpTo(AdapterPaths, MaxAdapters)}

\* Python truthiness of adapter_name_or_path: None and [] are falsy
Truthy(ad) == ad.present /\ Len(ad.paths) > 0

NoPath == "no_vhead_path"

VARIABLES
  is_trainable,          \* argument is_trainable
  add_valuehead,         \* argument add_valuehead
  model_type,            \* getattr(config, "model_type", None)
  arg_use_unsloth,       \* model_args.use_unsloth as passed by the caller
  arg_adapter,           \* model_args.adapter_name_or_path as passed by the caller
  use_unsloth,           \* model_args.use_unsloth (mutated at line 75)
  adapter_name_or_path,  \* model_args.adapter_name_or_path (mutated at line 78)
  pc,                    \* the statement group about to run
  model,                 \* the current model handle
  vhead_path,            \* local vhead_path
  counts,                \* (trainable_params, all_param) of line 127
  log,                   \* what logger received, in order
  trace                  \* the statement groups that have run, in order

vars == <<is_trainable, add_valuehead, model_type, arg_use_unsloth, arg_adapter,
          use_unsloth, adapter_name_or_path, pc, model, vhead_path, counts, log, trace>>

inputs == <<is_trainable, add_valuehead, model_type, arg_use_unsloth, arg_adapter>>

Entry(stage, level, msg) == [stage |-> stage, level |-> level, msg |-> msg]

\* model = None at line 56, before any constructor has run
NoModel ==
  [ ctors         |-> <<>>,     \* constructors called, in order
    tags          |-> {},       \* tags given to add_model_tags
    can_tag       |-> FALSE,    \* hasattr(model, "add_model_tags")
    quantized     |-> FALSE,    \* getattr(model, "quantization_method", None) is truthy
    patched       |-> 0,        \* calls of patch_model on this model
    adapter_calls |-> 0,        \* calls of init_adapter on this model
    adapter_arg   |-> NoAdapter,\* adapter_name_or_path init_adapter was given
    restored      |-> FALSE,    \* init_adapter restored an adapter checkpoint
    wrapped       |-> FALSE,    \* wrapped by AutoModelForCausalLMWithValueHead
    vhead_loaded  |-> FALSE,    \* load_state_dict(vhead_params) was called
    grad          |-> {},       \* parameters with requires_grad
    cast          |-> FALSE,    \* model.to(compute_dtype) was called
    mode          |-> "unset" ] \* "train" / "eval" once the finalizer ran

Init ==
  /\ is_trainable \in BOOLEAN
  /\ add_valuehead \in BOOLEAN
  /\ model_type \in ModelTypes
  /\ arg_use_unsloth \in BOOLEAN
  /\ arg_adapter \in AdapterValues
  /\ use_unsloth = arg_use_unsloth
  /\ adapter_name_or_path = arg_adapter
  /\ pc = "resolve"
  /\ model = NoModel
  /\ vhead_path = NoPath
  /\ counts = [trainable |-> 0, all |-> 0]
  /\ log = <<>>
  /\ trace = <<>>

\* ------------------------------------------------- lines 35 .. 54: set-up
\* line 35: try_download_model_from_ms(model_args)
Resolve ==
  /\ pc = "resolve"
  /\ pc' = "tokenizer"
  /\ trace' = Append(trace, "resolve")
  /\ UNCHANGED <<inputs, use_unsloth, adapter_name_or_path, model, vhead_path, counts, log>>

\* lines 44-51: AutoTokenizer.from_pretrained, patch_tokenizer
LoadTokenizer ==
  /\ pc = "tokenizer"
  /\ pc' = "config"
  /\ trace' = Append(trace, "tokenizer")
  /\ UNCHANGED <<inputs, use_unsloth, adapter_name_or_path, model, vhead_path, counts, log>>

\* lines 53-54: AutoConfig.from_pretrained, patch_config
LoadConfig ==
  /\ pc = "config"
  /\ pc' = "construct"
  /\ trace' = Append(trace, "config")
  /\ UNCHANGED <<inputs, use_unsloth, adapter_name_or_path, model, vhead_path, counts, log>>

\* ---------------------------------- lines 56 .. 99: constructor selection
\* variant of UnslothCtor: the branch is entered on use_unsloth alone
UnslothCtor_IgnoresTrainable(tr, un, mt) ==
  IF un
  THEN IF mt = "llama" THEN <<"FastLlamaModel">>
       ELSE IF mt = "mistral" THEN <<"FastMistralModel">>
       ELSE <<>>
  ELSE <<>>

\* lines 57-72: the constructor the unsloth branch calls (<<>>: none, model stays None)
UnslothCtor(tr, un, mt) ==
  IF tr /\ un
  THEN IF mt = "llama" THEN <<"FastLlamaModel">>
       ELSE IF mt = "mistral" THEN <<"FastMistralModel">>
       ELSE <<>>
  ELSE <<>>

\* variant of SelectorFlag: the else branch forgets to clear the flag
SelectorFlag_Keeps(tr, un, mt) == un

\* lines 73-75: model_args.use_unsloth after the unsloth branch
SelectorFlag(tr, un, mt) ==
  IF tr /\ un /\ mt # "llama" /\ mt # "mistral" THEN FALSE ELSE un

\* variant of SelectorAdapters: the adapter list is left as passed
SelectorAdapters_Keeps(tr, un, ad) == ad

\* lines 77-78: model_args.adapter_name_or_path after the unsloth branch
SelectorAdapters(tr, un, ad) ==
  IF tr /\ un /\ Truthy(ad) THEN NoAdapter ELSE ad

\* lines 74 and 79: the warnings of the unsloth branch
SelectorLog(tr, un, mt, ad) ==
  (IF tr /\ un /\ mt # "llama" /\ mt # "mistral"
   THEN <<Entry("construct", "warning", "unsloth_unsupported_model_type")>> ELSE <<>>)
  \o
  (IF tr /\ un /\ Truthy(ad)
   THEN <<Entry("construct", "warning", "unsloth_no_adapters")>> ELSE <<>>)

\* lines 81-88: AutoModelForCausalLM.from_pretrained runs when model is None
StandardCtor(calls) ==
  IF calls = <<>> THEN <<"AutoModelForCausalLM">> ELSE <<>>

\* lines 93-94: add_model_tags(["llama-factory"]), inside the "model is None" block
ModelTags(calls, can_tag) ==
  IF calls = <<>> /\ can_tag THEN {"llama-factory"} ELSE {}

\* lines 95-99: the warning when the model has no add_model_tags
TagLog(calls, can_tag) ==
  IF calls = <<>> /\ ~can_tag
  THEN <<Entry("construct", "warning", "cannot_tag_model")>> ELSE <<>>

ConstructModel ==
  /\ pc = "construct"
  /\ \E can_tag \in BOOLEAN, quantized \in BOOLEAN :
       LET fast == UnslothCtor(is_trainable, use_unsloth, model_type)
       IN  /\ model' = [model EXCEPT !.ctors = fast \o StandardCtor(fast),
                                     !.tags = ModelTags(fast, can_tag),
                                     !.can_tag = can_tag,
                                     !.quantized = quantized,
                                     !.grad = Params]
           /\ log' = log \o SelectorLog(is_trainable, use_unsloth, model_type,
                                        adapter_name_or_path)
                         \o TagLog(fast, can_tag)
  /\ use_unsloth' = SelectorFlag(is_trainable, use_unsloth, model_type)
  /\ adapter_name_or_path' =
       SelectorAdapters(is_trainable, use_unsloth, adapter_name_or_path)
  /\ pc' = "patch_model"
  /\ trace' = Append(trace, "construct")
  /\ UNCHANGED <<inputs, vhead_path, counts>>

\* lines 101-102: patch_model, register_autoclass
PatchModel ==
  /\ pc = "patch_model"
  /\ model' = [model EXCEPT !.patched = @ + 1]
  /\ pc' = "adapter"
  /\ trace' = Append(trace, "patch_model")
  /\ UNCHANGED <<inputs, use_unsloth, adapter_name_or_path, vhead_path, counts, log>>

\* ------------------------------------------------- line 104: init_adapter
\* init_adapter restores adapter checkpoints only for the parameter-efficient
\* strategy and only when it is given adapter paths
AdapterRestores(ft, ad) == ft = "lora" /\ Truthy(ad)

\* variant of AfterAdapter: the value-head block runs unconditionally
AfterAdapter_AlwaysVhead(vh) == "vhead"

\* line 106: the value-head block runs only when add_valuehead
AfterAdapter(vh) == IF vh THEN "vhead" ELSE "finalize"

InitAdapter ==
  /\ pc = "adapter"
  /\ \E ft \in FinetuningTypes, g \in SUBSET Params :
       model' = [model EXCEPT !.adapter_calls = @ + 1,
                              !.adapter_arg = adapter_name_or_path,
                              !.restored = AdapterRestores(ft, adapter_name_or_path),
                              !.grad = g]
  /\ pc' = AfterAdapter(add_valuehead)
  /\ trace' = Append(trace, "adapter")
  /\ UNCHANGED <<inputs, use_unsloth, adapter_name_or_path, vhead_path, counts, log>>

\* --------------------------------------- lines 106 .. 118: the value head
\* lines 110-113: vhead_path; adapter_name_or_path[-1] of an empty list raises IndexError
VheadPath(ad, name) ==
  IF ad.present
  THEN IF Len(ad.paths) > 0
       THEN [raised |-> FALSE, path |-> ad.paths[Len(ad.paths)]]
       ELSE [raised |-> TRUE, path |-> NoPath]
  ELSE [raised |-> FALSE, path |-> name]

\* load_valuehead_params reports a source that holds no value-head weights
VheadParamsLog(found) ==
  IF found THEN <<>> ELSE <<Entry("vhead", "info", "vhead_weights_not_found")>>

\* lines 116-117: load_state_dict runs when vhead_params is not None
LoadsHead(found) == found

\* line 118: the message after load_state_dict
VheadLoadedLog(found) ==
  IF found THEN <<Entry("vhead", "info", "vhead_loaded_from_checkpoint")>> ELSE <<>>

ComposeValueHead ==
  /\ pc = "vhead"
  /\ LET src == VheadPath(adapter_name_or_path, ModelName)
     IN  IF src.raised
         THEN /\ model' = [model EXCEPT !.wrapped = TRUE]
              /\ pc' = "error"
              /\ UNCHANGED <<vhead_path, log>>
         ELSE \E found \in BOOLEAN :
                /\ model' = [model EXCEPT !.wrapped = TRUE,
                                          !.vhead_loaded = LoadsHead(found)]
                /\ vhead_path' = src.path
                /\ log' = log \o VheadParamsLog(found) \o VheadLoadedLog(found)
                /\ pc' = "finalize"
  /\ trace' = Append(trace, "vhead")
  /\ UNCHANGED <<inputs, use_unsloth, adapter_name_or_path, counts>>

\* ------------------------------------- lines 120 .. 137: mode and counts
\* line 121: requires_grad_(False) when not trainable
FinalizeGrad(tr, grad) == IF ~tr THEN {} ELSE grad

\* variant of FinalizeCast: the quantization_method test is dropped
FinalizeCast_Always(tr, quantized) == ~tr

\* line 122: the cast to compute_dtype
FinalizeCast(tr, quantized) == ~tr /\ ~quantized

\* lines 123 and 125
FinalizeMode(tr) == IF ~tr THEN "eval" ELSE "train"

\* variant of FinalizeLog: the inference-only note is logged unconditionally
FinalizeLog_AlwaysNote(tr) ==
  <<Entry("finalize", "info", "param_counts"),
    Entry("finalize", "info", "zero_trainable_expected_for_inference")>>

\* lines 127-135: the parameter report, and the inference-only note
FinalizeLog(tr) ==
  <<Entry("finalize", "info", "param_counts")>>
  \o (IF ~tr THEN <<Entry("finalize", "info", "zero_trainable_expected_for_inference")>>
      ELSE <<>>)

Finalize ==
  /\ pc = "finalize"
  /\ LET g == FinalizeGrad(is_trainable, model.grad)
     IN  /\ model' = [model EXCEPT !.grad = g,
                                   !.cast = FinalizeCast(is_trainable, model.quantized),
                                   !.mode = FinalizeMode(is_trainable)]
         /\ counts' = [trainable |-> Cardinality(g), all |-> NumParams]
  /\ log' = log \o FinalizeLog(is_trainable)
  /\ pc' = "done"
  /\ trace' = Append(trace, "finalize")
  /\ UNCHANGED <<inputs, use_unsloth, adapter_name_or_path, vhead_path>>

Next ==
  \/ Resolve
  \/ LoadTokenizer
  \/ LoadConfig
  \/ ConstructModel
  \/ PatchModel
  \/ InitAdapter
  \/ ComposeValueHead
  \/ Finalize

Spec == Init /\ [][Next]_vars

\* ------------------------------------------------------------- vocabulary
\* statement group s has run
Ran(s) == \E i \in 1..Len(trace) : trace[i] = s

Logged(level, msg) == \E i \in 1..Len(log) : log[i].level = level /\ log[i].msg = msg

\* what logger received from the statement group `stage`
EntriesOf(stage) == SelectSeq(log, LAMBDA e : e.stage = stage)

IsPrefix(s, t) == Len(s) <= Len(t) /\ \A i \in 1..Len(s) : s[i] = t[i]

UnslothSupported == {"llama", "mistral"}

\* the caller asked for the accelerated path and the family supports it
AcceleratedCase == is_trainable /\ arg_use_unsloth /\ model_type \in UnslothSupported

\* the caller asked for the accelerated path and the family does not support it
FallbackCase == is_trainable /\ arg_use_unsloth /\ model_type \notin UnslothSupported

\* ------------------------------------------------------------------ claims

\* C1: once the constructor selection has run, exactly one constructor has been
\* called; it is FastLlamaModel / FastMistralModel exactly when is_trainable and
\* use_unsloth hold and model_type is llama / mistral, and AutoModelForCausalLM
\* in every other case; before the selection runs none has been called.
C1_ExactlyOneConstructor ==
  /\ ~Ran("construct") => model.ctors = <<>>
  /\ Ran("construct") =>
       /\ Len(model.ctors) = 1
       /\ AcceleratedCase =>
            model.ctors[1] = (IF model_type = "llama" THEN "FastLlamaModel"
                              ELSE "FastMistralModel")
       /\ ~AcceleratedCase => model.ctors[1] = "AutoModelForCausalLM"

C1_Witness ==
  /\ pc = "done"
  /\ is_trainable /\ arg_use_unsloth /\ model_type = "mistral"
  /\ model.ctors = <<"FastMistralModel">>

\* C2: with is_trainable, use_unsloth and an unsupported model_type, the
\* selection does not raise: the warning is logged, model_args.use_unsloth is
\* False afterwards, the model is built by AutoModelForCausalLM alone and goes on
\* to patch_model.
C2_UnsupportedFamilyFallsBack ==
  (FallbackCase /\ Ran("construct")) =>
    /\ Logged("warning", "unsloth_unsupported_model_type")
    /\ use_unsloth = FALSE
    /\ model.ctors = <<"AutoModelForCausalLM">>
    /\ (pc = "patch_model" \/ model.patched = 1)

C2_Witness ==
  /\ FallbackCase
  /\ pc = "done"
  /\ use_unsloth = FALSE
  /\ model.ctors = <<"AutoModelForCausalLM">>
  /\ Logged("warning", "unsloth_unsupported_model_type")

\* C3: with an unsupported model_type and use_unsloth = True, the load behaves as
\* the load of the same arguments with use_unsloth = False: same constructor,
\* same adapter_name_or_path handed to init_adapter, same vhead_path (or the same
\* failure to compute one).
C3_FallbackEquivalence ==
  (arg_use_unsloth /\ model_type \notin UnslothSupported) =>
    LET refCtor == UnslothCtor(is_trainable, FALSE, model_type)
        refAdapter == SelectorAdapters(is_trainable, FALSE, arg_adapter)
    IN  /\ Ran("construct") => model.ctors = refCtor \o StandardCtor(refCtor)
        /\ Ran("adapter") => model.adapter_arg = refAdapter
        /\ Ran("vhead") =>
             /\ (pc = "error") = VheadPath(refAdapter, ModelName).raised
             /\ vhead_path = VheadPath(refAdapter, ModelName).path

\* C4: on the accelerated path with a non-empty adapter_name_or_path, the load
\* does not fail: adapter_name_or_path is None and the warning is logged once the
\* selection has run, so init_adapter is given no adapter path and restores none.
C4_AcceleratedClearsAdapters ==
  (AcceleratedCase /\ Truthy(arg_adapter) /\ Ran("construct")) =>
    /\ adapter_name_or_path = NoAdapter
    /\ Logged("warning", "unsloth_no_adapters")
    /\ pc # "error"
    /\ Ran("adapter") => (model.adapter_arg = NoAdapter /\ ~model.restored)

C4_Witness ==
  /\ AcceleratedCase /\ Truthy(arg_adapter)
  /\ pc = "done"
  /\ model.adapter_calls = 1
  /\ model.adapter_arg = NoAdapter

\* C5: whenever add_valuehead holds and the value-head block has run, vhead_path
\* is the last entry of adapter_name_or_path if that list is present and
\* model_name_or_path otherwise; without add_valuehead the block does not run,
\* no vhead_path is computed and no head weights are loaded.
C5_RestorationSource ==
  /\ Ran("vhead") =>
       /\ adapter_name_or_path.present =>
            /\ Len(adapter_name_or_path.paths) > 0
            /\ vhead_path = adapter_name_or_path.paths[Len(adapter_name_or_path.paths)]
       /\ ~adapter_name_or_path.present => vhead_path = ModelName
  /\ ~add_valuehead => (~Ran("vhead") /\ vhead_path = NoPath /\ ~model.vhead_loaded)

\* C6: whenever add_valuehead holds and the value-head block has run without a
\* checkpoint to load (an empty adapter list included), nothing was raised, no
\* state was loaded, the model is the value-head wrapper and "no weights found"
\* was logged; when weights were loaded, "loaded" was logged instead.
C6_MissingHeadIsNoOp ==
  Ran("vhead") =>
    /\ ~model.vhead_loaded =>
         /\ pc # "error"
         /\ model.wrapped
         /\ Logged("info", "vhead_weights_not_found")
         /\ ~Logged("info", "vhead_loaded_from_checkpoint")
    /\ model.vhead_loaded =>
         /\ Logged("info", "vhead_loaded_from_checkpoint")
         /\ ~Logged("info", "vhead_weights_not_found")

\* C7: the finalizer step, when not trainable, leaves no parameter with
\* requires_grad, sets eval mode and casts exactly when the model has no
\* quantization_method; when trainable it sets train mode, does not cast and
\* leaves requires_grad as init_adapter left it.
C7_ModeFinalizer ==
  [][pc = "finalize" =>
       /\ pc' = "done"
       /\ ~is_trainable =>
            /\ model'.grad = {}
            /\ model'.mode = "eval"
            /\ model'.cast = (~model.quantized)
       /\ is_trainable =>
            /\ model'.mode = "train"
            /\ ~model'.cast
            /\ model'.grad = model.grad]_vars

C7_Witness ==
  /\ pc = "done"
  /\ ~is_trainable
  /\ model.quantized /\ ~model.cast
  /\ model.mode = "eval" /\ model.grad = {}

\* C8 as stated: on every completed load the counts are reported; zero trainable
\* parameters with is_trainable is logged as a warning; without is_trainable the
\* note is informational and the finalizer raises no warning.
C8_ZeroTrainableWarns ==
  pc = "done" =>
    /\ Logged("info", "param_counts")
    /\ (is_trainable /\ counts.trainable = 0) =>
         \E i \in 1..Len(log) : log[i].stage = "finalize" /\ log[i].level = "warning"
    /\ ~is_trainable =>
         /\ Logged("info", "zero_trainable_expected_for_inference")
         /\ \A i \in 1..Len(log) : log[i].stage = "finalize" => log[i].level = "info"

\* C8 amended: on every completed load the counts are computed and reported at
\* info level; the inference-only note follows exactly when is_trainable is
\* false; the finalizer logs nothing else, so zero trainable parameters with
\* is_trainable produce no warning.
C8_CountsReportedNoWarning ==
  pc = "done" =>
    /\ counts = [trainable |-> Cardinality(model.grad), all |-> NumParams]
    /\ EntriesOf("finalize") =
         IF is_trainable
         THEN <<Entry("finalize", "info", "param_counts")>>
         ELSE <<Entry("finalize", "info", "param_counts"),
                Entry("finalize", "info", "zero_trainable_expected_for_inference")>>

C8_Witness ==
  /\ pc = "done"
  /\ is_trainable
  /\ counts.trainable = 0
  /\ EntriesOf("finalize") = <<Entry("finalize", "info", "param_counts")>>

\* C9: on every completed load, whichever constructor ran, the model carries the
\* tag "llama-factory" or the cannot-tag warning was logged.
C9_TaggedOrWarned ==
  pc = "done" =>
    ("llama-factory" \in model.tags \/ Logged("warning", "cannot_tag_model"))

\* C10: the statement groups run at most once each, in the order resolve,
\* tokenizer, config, construct, patch_model, adapter, (vhead), finalize;
\* patch_model runs once on either construction path, after the constructor and
\* before init_adapter; the value-head block runs iff add_valuehead.
ExpectedOrder ==
  <<"resolve", "tokenizer", "config", "construct", "patch_model", "adapter">>
  \o (IF add_valuehead THEN <<"vhead">> ELSE <<>>)
  \o <<"finalize">>

C10_StageOrder ==
  /\ IsPrefix(trace, ExpectedOrder)
  /\ pc = "done" => trace = ExpectedOrder
  /\ model.patched = (IF Ran("patch_model") THEN 1 ELSE 0)
  /\ model.adapter_calls = (IF Ran("adapter") THEN 1 ELSE 0)
  /\ model.patched = 1 => Len(model.ctors) = 1
  /\ model.wrapped = Ran("vhead")
  /\ (pc \in {"finalize", "done", "error"}) => (Ran("vhead") = add_valuehead)

C10_Witness ==
  /\ pc = "done"
  /\ add_valuehead
  /\ AcceleratedCase
  /\ model.patched = 1
  /\ Len(trace) = 8
====
